---- MODULE Spec2Model ----
(***************************************************************************)
(* A model of python_backend/app.py: the APEX telemetry pipeline.          *)
(*                                                                         *)
(*   - the connection pool and fetch_apex_readings (fetch, gunzip, parse,  *)
(*     normalise, sort),                                                   *)
(*   - continuous_apex_poller and the _smart_cache it feeds,               *)
(*   - get_cached_apex_or_fetch and the request handlers that read it,     *)
(*   - build_derived_from_reading.                                         *)
(*                                                                         *)
(* Numbers are fixed-point integers in thousandths (20.5 is 20500), so a   *)
(* float timestamp in seconds is an integer number of milliseconds.        *)
(* Timestamps are relative to 2025-10-29T15:21:00 local time.              *)
(***************************************************************************)
EXTENDS Integers, Sequences, FiniteSets, TLC

VARIABLES
    smart_cache,   \* _smart_cache: data and timestamp entries (app.py:445)
    age,           \* seconds elapsed since the instant stored in _smart_cache['timestamp']
    cache_lock,    \* holder of _smart_cache_lock: "free", "poller" or a request thread
    pool_lock,     \* holder of _apex_connection_lock: "free" or "poller"
    pool,          \* _apex_connection_pool: the pooled handles, each with its host
    ppc,           \* position of the poller thread in continuous_apex_poller / fetch_apex_readings
    res,           \* the HTTP response the running fetch holds
    fret,          \* what the last fetch_apex_readings call did: returned list or raised
    sleepLeft,     \* seconds of time.sleep(interval) the poller still has to wait
    reqs,          \* upstream requests issued by the running fetch call
    rpc,           \* position of each request thread
    pubs,          \* number of publishes completed by the poller (wraps at PubWrap)
    published,     \* TRUE once a poll has published a batch
    lastGood,      \* the batch returned by the last non-empty fetch
    fails,         \* fetches that returned [] since the last non-empty one (saturates)
    failedDone,    \* failed cycles, interval wait included, completed since then (saturates)
    lastSnap,      \* Derived Snapshot of the last get_sensor_data call since the last publish
    pin,           \* input of the pure-function specification
    pout           \* output of the pure-function specification

vars == <<smart_cache, age, cache_lock, pool_lock, pool, ppc, res, fret, sleepLeft,
          reqs, rpc, pubs, published, lastGood, fails, failedDone, lastSnap, pin, pout>>

sysvars == <<smart_cache, age, cache_lock, pool_lock, pool, ppc, res, fret, sleepLeft,
             reqs, rpc, pubs, published, lastGood, fails, failedDone, lastSnap>>

(***************************************************************************)
(* Bounds of the model.                                                    *)
(***************************************************************************)
NumReaders == 2     \* request threads
MaxAge == 13        \* the age counter saturates here (above every threshold)
MaxCount == 3       \* the fails and failedDone counters saturate here
PubWrap == 2        \* publish tags are 1..PubWrap
MaxItems == 3       \* longest exhaustively enumerated payload list

Readers == 1..NumReaders

(***************************************************************************)
(* JSON values as Python sees them after json.loads.                       *)
(***************************************************************************)
Num(v) == [k |-> "num", n |-> v, s |-> ""]
Str(x) == [k |-> "str", n |-> 0, s |-> x]
Bool(b) == [k |-> "bool", n |-> IF b THEN 1 ELSE 0, s |-> ""]
Null == [k |-> "null", n |-> 0, s |-> ""]

\* Python truthiness of a scalar value: `if apex_ts_str:`
Truthy(v) ==
    CASE v.k = "num" -> v.n # 0
      [] v.k = "bool" -> v.n # 0
      [] v.k = "str" -> v.s # ""
      [] OTHER -> FALSE

\* a decoded JSON document, or one element of a decoded list
JObj(o) == [t |-> "obj", o |-> o, l |-> <<>>]          \* a dict (no list under "items")
JItems(l) == [t |-> "items", o |-> <<>>, l |-> l]      \* a dict whose "items" is a list
JList(l) == [t |-> "list", o |-> <<>>, l |-> l]        \* a bare list
JScalar == [t |-> "scalar", o |-> <<>>, l |-> <<>>]    \* number, string, bool or null

\* {**a, **b}
Merge(a, b) ==
    [x \in DOMAIN a \cup DOMAIN b |-> IF x \in DOMAIN b THEN b[x] ELSE a[x]]

\* r.get(key, default)
Get(r, key, default) == IF key \in DOMAIN r THEN r[key] ELSE default

(***************************************************************************)
(* Timestamp parsing (app.py:260-278).                                     *)
(***************************************************************************)
TsA == "2025-10-29T15:21:00.000000Z"
TsA2 == "2025-10-29T15:21:00.000000"
TsB == "2025-10-29T15:21:10.500000Z"
TsC == "2025-10-29T15:21:20.000000Z"
TsNoFrac == "2025-10-29T15:21:20Z"
TsBad == "not-a-time"

\* str.replace('Z', '')
StripZ(x) ==
    CASE x = TsA -> TsA2
      [] x = TsB -> "2025-10-29T15:21:10.500000"
      [] x = TsC -> "2025-10-29T15:21:20.000000"
      [] x = TsNoFrac -> "2025-10-29T15:21:20"
      [] OTHER -> x

\* datetime.strptime(x, "%Y-%m-%dT%H:%M:%S.%f").timestamp(), in milliseconds;
\* ok is FALSE where strptime raises ValueError (the fraction is mandatory)
Strptime(x) ==
    CASE x = "2025-10-29T15:21:00.000000" -> [ok |-> TRUE, t |-> 0]
      [] x = "2025-10-29T15:21:10.500000" -> [ok |-> TRUE, t |-> 10500]
      [] x = "2025-10-29T15:21:20.000000" -> [ok |-> TRUE, t |-> 20000]
      [] OTHER -> [ok |-> FALSE, t |-> 0]

\* the fallback of lines 274 and 277-278: time.time() - (idx * 10), idx from 0
FallbackTs_NoIndex(now, idx) == now

FallbackTs(now, idx) == now - idx * 10000

\* it_copy["timestamp"] for the record at 0-based index idx
ResolveTs(it, idx, now) ==
    LET v == Get(it, "timestamp_reading", Str(""))
    IN  IF Truthy(v)
        THEN IF v.k = "str" /\ Strptime(StripZ(v.s)).ok
             THEN Strptime(StripZ(v.s)).t
             ELSE FallbackTs(now, idx)      \* ValueError, or AttributeError on a non-string
        ELSE FallbackTs(now, idx)

\* one pass of the loop body of lines 256-282
NormalizeOne(it, idx, now) ==
    Merge(it, [timestamp |-> Num(ResolveTs(it, idx, now)),
               _ts_num |-> Num(ResolveTs(it, idx, now)),
               _pull_time |-> Num(now)])

\* x.get("_ts_num", 0), the sort key of line 284
SortKey(r) == Get(r, "_ts_num", Num(0)).n

\* list.sort(key=..., reverse=True) is stable: x goes after every element whose
\* key is >= its own
RECURSIVE InsertDesc(_, _)
InsertDesc(x, s) ==
    IF s = <<>> THEN <<x>>
    ELSE IF SortKey(Head(s)) >= SortKey(x)
         THEN <<Head(s)>> \o InsertDesc(x, Tail(s))
         ELSE <<x>> \o s

RECURSIVE SortDescFrom(_, _)
SortDescFrom(done, rest) ==
    IF rest = <<>> THEN done
    ELSE SortDescFrom(InsertDesc(Head(rest), done), Tail(rest))

SortDesc_Unsorted(s) == s

SortDesc(s) == SortDescFrom(<<>>, s)

\* lines 255-284 for a list of dict records (the objects of the JSON elements)
Normalize(items, now) ==
    SortDesc([i \in 1..Len(items) |-> NormalizeOne(items[i].o, i - 1, now)])

(***************************************************************************)
(* Response bodies and fetch_apex_readings' handling of them               *)
(* (app.py:225-300).                                                       *)
(***************************************************************************)
\* magic: the bytes start with 0x1f 0x8b; gzok: gzip.decompress succeeds;
\* text: what the (decompressed) bytes are; json: the decoded document;
\* readok: res.read() delivers the whole body
Body(magic, gzok, text, json, readok) ==
    [magic |-> magic, gzok |-> gzok, text |-> text, json |-> json, readok |-> readok]

NoBody == Body(FALSE, FALSE, "none", JScalar, FALSE)
NoRes == [status |-> 0, body |-> NoBody]

\* what a fetch_apex_readings call did
Returned(v, cause) == [kind |-> "list", v |-> v, cause |-> cause]
Raised(cause) == [kind |-> "raise", v |-> <<>>, cause |-> cause]
NoRet == [kind |-> "none", v |-> <<>>, cause |-> "none"]

\* lines 240-248: the list of records of a decoded document
ItemsOf_NoWrap(data) ==
    CASE data.t = "items" -> data.l
      [] data.t = "list" -> data.l
      [] OTHER -> <<>>

ItemsOf(data) ==
    CASE data.t = "items" -> data.l
      [] data.t = "list" -> data.l
      [] data.t = "obj" -> <<data>>
      [] OTHER -> <<>>

\* dict(it) followed by it.get(...) succeeds only on a dict
IsDict(it) == it.t \in {"obj", "items"}

\* lines 227-296, given the bytes res.read() returned: the list returned, or
\* the exception that leaves the inner code for the handler of line 302
ParseBody(body, now) ==
    IF body.magic /\ ~body.gzok THEN Returned(<<>>, "gzip")
    ELSE IF body.text # "json" THEN Raised("decode")
    ELSE IF body.json.t = "scalar" THEN Returned(<<>>, "shape")
    ELSE IF \E i \in 1..Len(ItemsOf(body.json)) : ~IsDict(ItemsOf(body.json)[i])
         THEN Raised("record")
    ELSE Returned(Normalize(ItemsOf(body.json), now), "none")

(***************************************************************************)
(* What the upstream can answer in the system specification.               *)
(***************************************************************************)
ApexHost == "oracleapex.com"

RecHot == [timestamp_reading |-> Str(TsC), temperature_bmp280 |-> Num(31000),
           temperature_dht22 |-> Num(31400), humidity |-> Num(50000)]
RecOld == [timestamp_reading |-> Str(TsA), temperature_bmp280 |-> Num(22000),
           temperature_dht22 |-> Num(22500), humidity |-> Num(60000),
           flame_detected |-> Num(0)]
RecGas == [timestamp_reading |-> Str(TsB), mq2_drop |-> Num(800000),
           temperature_bmp280 |-> Num(23000), temperature_dht22 |-> Num(23000),
           humidity |-> Num(55000), flame_detected |-> Num(0)]
RecNoTs == [temperature_bmp280 |-> Num(19000), humidity |-> Num(75000)]
RecBadTs == [timestamp_reading |-> Str(TsBad), temperature_dht22 |-> Num(25000)]

SysBodies ==
    { Body(FALSE, FALSE, "json", JList(<<JObj(RecOld), JObj(RecHot)>>), TRUE),
      Body(TRUE, TRUE, "json", JObj(RecGas), TRUE),
      Body(FALSE, FALSE, "json", JItems(<<JObj(RecNoTs), JObj(RecBadTs)>>), TRUE),
      Body(FALSE, FALSE, "json", JList(<<>>), TRUE),
      Body(TRUE, FALSE, "json", JObj(RecGas), TRUE),
      Body(FALSE, FALSE, "notjson", JScalar, TRUE),
      Body(FALSE, FALSE, "json", JScalar, TRUE),
      Body(FALSE, FALSE, "json", JList(<<JObj(RecOld), JScalar>>), TRUE),
      Body(FALSE, FALSE, "json", JObj(RecGas), FALSE) }

SysResponses ==
    {[status |-> 200, body |-> b] : b \in SysBodies} \cup {[status |-> 500, body |-> NoBody]}

\* the reading of time.time() during a fetch of the system specification, in
\* milliseconds (the pure-function specification draws it from several)
FetchClock == {60000}

\* readings of time.time() during a request handler
CallClock == {90000, 95000}

(***************************************************************************)
(* Python floats: a finite value (kind "num", in thousandths), or one of   *)
(* the three special values json.loads and float() can produce.            *)
(***************************************************************************)
PInf == [k |-> "inf", n |-> 0, s |-> ""]
NInf == [k |-> "ninf", n |-> 0, s |-> ""]
NaN == [k |-> "nan", n |-> 0, s |-> ""]

IsNumber(v) == v.k \in {"num", "inf", "ninf", "nan"}

\* the integer nearest to num/den (den > 0), ties to the even one: round() on
\* a float that holds its decimal value exactly (a decimal tie that a binary
\* float cannot hold, such as 17.95, rounds by the float's actual value; the
\* inputs used here produce no such tie)
RoundDiv(num, den) ==
    LET q == num \div den
        r == num % den
    IN  IF 2 * r < den THEN q
        ELSE IF 2 * r > den THEN q + 1
        ELSE IF q % 2 = 0 THEN q ELSE q + 1

\* round(x, 1); inf and nan pass through
Round1(x) == IF x.k = "num" THEN Num(100 * RoundDiv(x.n, 100)) ELSE x

\* round(x, 0)
Round0(x) == IF x.k = "num" THEN Num(1000 * RoundDiv(x.n, 1000)) ELSE x

\* a + b
FAdd(a, b) ==
    CASE a.k = "nan" \/ b.k = "nan" -> NaN
      [] a.k = "num" /\ b.k = "num" -> Num(a.n + b.n)
      [] a.k = "num" -> b
      [] b.k = "num" -> a
      [] a.k = b.k -> a
      [] OTHER -> NaN

\* round(x / 2.0, 1)
RoundHalf1(x) == IF x.k = "num" THEN Num(100 * RoundDiv(x.n, 200)) ELSE x

\* max(0, x): x only if x > 0
Max0_Unclamped(x) == x

Max0(x) == IF (x.k = "num" /\ x.n > 0) \/ x.k = "inf" THEN x ELSE Num(0)

\* x < c and x > c for a finite c (in thousandths); comparisons with nan are False
FLt(x, c) == (x.k = "num" /\ x.n < c) \/ x.k = "ninf"
FGt(x, c) == (x.k = "num" /\ x.n > c) \/ x.k = "inf"
FLe(x, c) == (x.k = "num" /\ x.n <= c) \/ x.k = "ninf"

\* float(s) for a string: ok is FALSE where it raises ValueError
ParseFloat(x) ==
    CASE x = "12.5" -> [ok |-> TRUE, f |-> Num(12500)]
      [] x = "1" -> [ok |-> TRUE, f |-> Num(1000)]
      [] x = "0" -> [ok |-> TRUE, f |-> Num(0)]
      [] x = "-3.2" -> [ok |-> TRUE, f |-> Num(-3200)]
      [] x = "inf" -> [ok |-> TRUE, f |-> PInf]
      [] x = "-inf" -> [ok |-> TRUE, f |-> NInf]
      [] x = "nan" -> [ok |-> TRUE, f |-> NaN]
      [] OTHER -> [ok |-> FALSE, f |-> NaN]

\* float(v): ok is FALSE where it raises (TypeError on None, ValueError on text)
ToFloat(v) ==
    CASE IsNumber(v) -> [ok |-> TRUE, f |-> v]
      [] v.k = "bool" -> [ok |-> TRUE, f |-> Num(1000 * v.n)]
      [] v.k = "str" -> ParseFloat(v.s)
      [] OTHER -> [ok |-> FALSE, f |-> NaN]

\* the helper num(key, default) of lines 323-327; None is Null
NumOf(r, key, default) ==
    IF ToFloat(Get(r, key, default)).ok THEN ToFloat(Get(r, key, default)).f ELSE default

\* s.strip().lower()
StripLower(x) ==
    CASE x \in {"yes", "Yes", "YES", " yes "} -> "yes"
      [] x \in {"y", "Y"} -> "y"
      [] x \in {"true", "True", "TRUE"} -> "true"
      [] x \in {"1", " 1"} -> "1"
      [] x \in {"no", "No"} -> "no"
      [] OTHER -> x

\* lines 365-377
FlameCutoff == 2000

FlameDetected(r) ==
    LET v == Get(r, "flame_detected", Num(0))
        flame_raw == NumOf(r, "flame_raw", Num(4095000))
    IN  CASE IsNumber(v) \/ v.k = "bool" -> ~(v.k \in {"num", "bool"} /\ v.n = 0)
          [] v.k = "str" -> StripLower(v.s) \in {"yes", "y", "true", "1"}
          [] OTHER -> FLt(flame_raw, FlameCutoff * 1000)

\* lines 329-339
Temperature_FirstOnly(r) ==
    LET temp_b == NumOf(r, "temperature_bmp280", Null)
        temp_d == NumOf(r, "temperature_dht22", Null)
    IN  IF temp_b # Null THEN Round1(temp_b)
        ELSE IF temp_d # Null THEN Round1(temp_d)
        ELSE Null

Temperature(r) ==
    LET temp_b == NumOf(r, "temperature_bmp280", Null)
        temp_d == NumOf(r, "temperature_dht22", Null)
    IN  IF temp_b # Null /\ temp_d # Null THEN RoundHalf1(FAdd(temp_b, temp_d))
        ELSE IF temp_b # Null THEN Round1(temp_b)
        ELSE IF temp_d # Null THEN Round1(temp_d)
        ELSE Null

\* lines 344-346: max(0, round(num(key, 0), 1))
GasDrop(r, key) == Max0(Round1(NumOf(r, key, Num(0))))

\* lines 353-363; percent / 100 * 4095 is percent * 819 / 20 (thousandths: / 20000)
LightIntensity_PercentFirst(r) ==
    LET light_raw == NumOf(r, "light_raw", Null)
        light_percent == NumOf(r, "light_percent", Null)
    IN  IF light_percent # Null
        THEN IF light_percent.k = "num"
             THEN Num(1000 * RoundDiv(light_percent.n * 819, 20000))
             ELSE light_percent
        ELSE IF light_raw # Null THEN Round0(light_raw)
        ELSE Num(0)

LightIntensity(r) ==
    LET light_raw == NumOf(r, "light_raw", Null)
        light_percent == NumOf(r, "light_percent", Null)
    IN  IF light_raw # Null THEN Round0(light_raw)
        ELSE IF light_percent # Null
             THEN IF light_percent.k = "num"
                  THEN Num(1000 * RoundDiv(light_percent.n * 819, 20000))
                  ELSE light_percent
        ELSE Num(0)

\* line 381: round(400 + mq135_drop * 1.2, 1)
Co2Level(drop) ==
    IF drop.k = "num" THEN Round1(Num(400000 + (drop.n * 12) \div 10)) ELSE drop

\* lines 403-407 and 411
AirQuality(drop) ==
    IF FLe(drop, 200000) THEN Str("Good")
    ELSE IF FGt(drop, 500000) THEN Str("Poor") ELSE Str("Moderate")

GasLevel(drop) ==
    IF FLe(drop, 300000) THEN Str("Safe")
    ELSE IF FGt(drop, 750000) THEN Str("High") ELSE Str("Elevated")

\* line 391: round(num("soil_moisture", 45)) raises on inf (OverflowError) and
\* on nan (ValueError)
SoilRaises(r) == NumOf(r, "soil_moisture", Num(45000)).k \in {"inf", "ninf", "nan"}

\* line 408: r.get("timestamp", r.get("_ts_num", time.time()))
DerivedTimestamp_CallTime(r, tnow) == Num(tnow)

DerivedTimestamp(r, tnow) == Get(r, "timestamp", Get(r, "_ts_num", Num(tnow)))

\* build_derived_from_reading (lines 318-418), called at clock reading tnow:
\* ok is FALSE where the call raises; nested dicts are flattened with a dot
BuildDerived(r, tnow) ==
    [ok |-> ~SoilRaises(r),
     d |-> [temperature |-> Temperature(r),
            humidity |-> Round1(NumOf(r, "humidity", Num(0))),
            co2_level |-> Co2Level(GasDrop(r, "mq135_drop")),
            light |-> LightIntensity(r),
            light_raw |-> LightIntensity(r),
            pressure |-> Round1(NumOf(r, "pressure", Num(0))),
            altitude |-> Round1(NumOf(r, "altitude", Num(0))),
            soil_moisture |-> Round0(NumOf(r, "soil_moisture", Num(45000))),
            flame_detected |-> Bool(FlameDetected(r)),
            flame_status |-> IF FlameDetected(r) THEN Str("Flame Detected")
                             ELSE Str("Flame Not Detected"),
            mq135_drop |-> GasDrop(r, "mq135_drop"),
            mq2_drop |-> GasDrop(r, "mq2_drop"),
            mq7_drop |-> GasDrop(r, "mq7_drop"),
            mq135_baseline |-> Round1(NumOf(r, "mq135_baseline", Num(0))),
            mq2_baseline |-> Round1(NumOf(r, "mq2_baseline", Num(0))),
            mq7_baseline |-> Round1(NumOf(r, "mq7_baseline", Num(0))),
            air_quality |-> AirQuality(GasDrop(r, "mq135_drop")),
            flammable_gas |-> GasLevel(GasDrop(r, "mq2_drop")),
            co_level |-> GasLevel(GasDrop(r, "mq7_drop")),
            timestamp |-> DerivedTimestamp(r, tnow)]
           @@ ("co2_air_quality.co2" :> Co2Level(GasDrop(r, "mq135_drop")))
           @@ ("co2_air_quality.air_quality" :> AirQuality(GasDrop(r, "mq135_drop")))
           @@ ("pressure_altitude.pressure" :> Round1(NumOf(r, "pressure", Num(0))))
           @@ ("pressure_altitude.altitude" :> Round1(NumOf(r, "altitude", Num(0))))]

\* the keys of latest that do not start with "_" (line 528)
PublicPart(r) == [x \in DOMAIN r \ {"_ts_num", "_pull_time"} |-> r[x]]

(***************************************************************************)
(* The historical series of get_sensor_analysis (lines 561-595, 678-722).  *)
(***************************************************************************)
\* float(x) inside extract_value_for_sensor: Null (None) where it raises
FloatOrNone(v) == IF ToFloat(v).ok THEN ToFloat(v).f ELSE Null

\* (float(b1) + float(b2)) / 2.0
Mean2(a, b) ==
    IF FAdd(a, b).k = "num" THEN Num(FAdd(a, b).n \div 2) ELSE FAdd(a, b)

\* key + '_raw'
RawKey(key) ==
    CASE key = "humidity" -> "humidity_raw"
      [] key = "temperature" -> "temperature_raw"
      [] OTHER -> "_raw"

\* extract_value_for_sensor(reading, key) of lines 561-595; None is Null
ExtractValue(r, key) ==
    IF key = "temperature"
    THEN LET a == Get(r, "temperature", Null)
             b1 == Get(r, "temperature_bmp280", Null)
             b2 == Get(r, "temperature_dht22", Null)
         IN  IF a # Null THEN FloatOrNone(a)
             ELSE IF b1 # Null /\ b2 # Null
                  THEN IF ToFloat(b1).ok /\ ToFloat(b2).ok
                       THEN Mean2(ToFloat(b1).f, ToFloat(b2).f) ELSE Null
             ELSE IF b1 # Null THEN FloatOrNone(b1)
             ELSE IF b2 # Null THEN FloatOrNone(b2)
             ELSE Null
    ELSE IF key \in DOMAIN r THEN FloatOrNone(r[key])
    ELSE IF RawKey(key) \in DOMAIN r THEN FloatOrNone(r[RawKey(key)])
    ELSE Null

\* lines 702-708: the charted value of one reading
HistValue(r, key) ==
    IF ExtractValue(r, key) # Null THEN ExtractValue(r, key)
    ELSE IF ToFloat(Get(r, key, Num(0))).ok THEN ToFloat(Get(r, key, Num(0))).f
    ELSE Num(0)

\* lines 678-683 and 718: the current value used for the two synthetic points
CurrentValue(current_data, key) ==
    IF ExtractValue(current_data, key) # Null THEN ExtractValue(current_data, key)
    ELSE IF key \in DOMAIN current_data
         THEN IF ToFloat(current_data[key]).ok THEN ToFloat(current_data[key]).f ELSE Num(0)
    ELSE Num(0)

\* list.sort(key=lambda x: x['timestamp']) is stable: x goes after every
\* element whose timestamp is <= its own
RECURSIVE InsertAsc(_, _)
InsertAsc(x, s) ==
    IF s = <<>> THEN <<x>>
    ELSE IF Head(s).timestamp.n <= x.timestamp.n
         THEN <<Head(s)>> \o InsertAsc(x, Tail(s))
         ELSE <<x>> \o s

RECURSIVE SortAscFrom(_, _)
SortAscFrom(done, rest) ==
    IF rest = <<>> THEN done
    ELSE SortAscFrom(InsertAsc(Head(rest), done), Tail(rest))

SortAsc_KeepOrder(s) == s

SortAsc(s) == SortAscFrom(<<>>, s)

\* the sensor keys the series is built for here, and the point counts of the
\* data_points table (line 554) with its default
HistoryKeys == {"temperature", "humidity"}
PointCounts == {5, 12, 24, 30, 52, 60}

\* lines 598-606 and 694-722 for a non-empty cached batch
HistoricalData(readings, num_points, key, tnow) ==
    LET raw == SubSeq(readings, 1, IF num_points < Len(readings)
                                   THEN num_points ELSE Len(readings))
        series == SortAsc([i \in 1..Len(raw) |->
                    [value |-> HistValue(raw[i], key),
                     timestamp |-> Get(raw[i], "timestamp",
                                       Get(raw[i], "_ts_num", Num(tnow)))]])
        latest == readings[1]
        current_data == Merge(PublicPart(latest), BuildDerived(latest, tnow).d)
        cur == CurrentValue(current_data, key)
    IN  IF Len(series) < 2
        THEN <<[value |-> cur, timestamp |-> Num(tnow - 10000)],
               [value |-> cur, timestamp |-> Num(tnow)]>>
        ELSE series

(***************************************************************************)
(* _smart_cache and get_cached_apex_or_fetch.                              *)
(***************************************************************************)
PollInterval == 3        \* _smart_cache['fetch_interval']
FreshSeconds == 10       \* the age limit of line 490

\* data_set / ts_set: the entry is not None.  dpub / tpub: which publish wrote
\* the entry (0: none), the identity of the stored list object and instant.
EmptyCache == [data_set |-> FALSE, data |-> <<>>, dpub |-> 0, ts_set |-> FALSE, tpub |-> 0]

\* the body of get_cached_apex_or_fetch (lines 488-497), run with the lock held
ReadResult(c, a) ==
    IF c.data_set /\ c.ts_set
    THEN [has |-> TRUE, data |-> c.data,
          kind |-> IF a < FreshSeconds THEN "cache_age" ELSE "cache_stale",
          age |-> a, dpub |-> c.dpub, tpub |-> c.tpub]
    ELSE [has |-> FALSE, data |-> <<>>, kind |-> "no_data", age |-> 0,
          dpub |-> 0, tpub |-> 0]

\* `if readings:` of the handlers: neither None nor an empty list
HasReadings(rr) == rr.has /\ rr.data # <<>>

\* get_sensor_data (lines 521-538) on what get_cached_apex_or_fetch returned:
\* status 503 with the error body, 500 when build_derived_from_reading raises,
\* else 200; snap is the Derived Snapshot, label the _cache_status
SensorData_ZeroFilled(rr, tnow) ==
    [status |-> 200, snap |-> BuildDerived(<<>>, tnow).d, label |-> rr.kind]

SensorData(rr, tnow) ==
    IF HasReadings(rr)
    THEN IF BuildDerived(rr.data[1], tnow).ok
         THEN [status |-> 200, snap |-> BuildDerived(rr.data[1], tnow).d, label |-> rr.kind]
         ELSE [status |-> 500, snap |-> <<>>, label |-> rr.kind]
    ELSE [status |-> 503, snap |-> <<>>, label |-> rr.kind]

\* the body of the 200 response (lines 528-531) without the two "_" entries
SensorBody(rr, tnow) == Merge(PublicPart(rr.data[1]), BuildDerived(rr.data[1], tnow).d)

NoSnap == [set |-> FALSE, snap |-> <<>>]

(***************************************************************************)
(* The threshold classifier (lines 42-51) and get_alerts (lines 841-1038). *)
(***************************************************************************)
\* c <= x for a finite c (in thousandths); False on nan
FGe(x, c) == (x.k = "num" /\ x.n >= c) \/ x.k = "inf"

\* _get_temperature_status(value) for a float value
TemperatureStatus_OpenEdges(value) ==
    IF FGt(value, 20000) /\ FLt(value, 27000) THEN "Optimal"
    ELSE IF (FGe(value, 18000) /\ FLe(value, 20000)) \/ (FGe(value, 27000) /\ FLe(value, 30000))
         THEN "Acceptable"
    ELSE "Critical"

TemperatureStatus(value) ==
    IF FGe(value, 20000) /\ FLe(value, 27000) THEN "Optimal"
    ELSE IF (FGe(value, 18000) /\ FLt(value, 20000)) \/ (FGt(value, 27000) /\ FLe(value, 30000))
         THEN "Acceptable"
    ELSE "Critical"

\* _get_humidity_status(value), lines 53-62
HumidityStatus(value) ==
    IF FGe(value, 45000) /\ FLe(value, 70000) THEN "Optimal"
    ELSE IF FGe(value, 71000) /\ FLe(value, 80000) THEN "Acceptable"
    ELSE "Critical"

\* lines 615-692 of get_sensor_analysis: the status shown for a sensor key of
\* current_data (every key used here is a key of the Derived Snapshot, so the
\* current value is never None and the status never 'Unknown')
DisplayStatus(current_data, key) ==
    LET v == CurrentValue(current_data, key)
    IN  CASE key = "temperature" -> TemperatureStatus(v)
          [] key = "humidity" -> HumidityStatus(v)
          [] key = "mq135_drop" -> AirQuality(v).s
          [] OTHER -> GasLevel(v).s

\* the sensor keys both the alert engine and the display classify
ClassifiedKeys == {"temperature", "humidity", "mq135_drop", "mq2_drop", "mq7_drop"}

\* one entry of the alerts list: the fields the frontend acts on
Alert(title, sensor_type, severity, sound) ==
    [title |-> title, sensor_type |-> sensor_type, severity |-> severity, sound |-> sound]

\* line 869: current_data.get('flame_detected') == 'Yes'
FlameAlert(cd) ==
    IF Get(cd, "flame_detected", Null) = Str("Yes")
    THEN <<Alert("FIRE HAZARD", "flame", "critical", TRUE)>> ELSE <<>>

\* lines 882-904
CoAlert_Inclusive(cd) ==
    LET mq7_drop == Get(cd, "mq7_drop", Num(0))
    IN  IF FGe(mq7_drop, 750000)
        THEN <<Alert("CO CRITICAL", "carbon_monoxide", "critical", TRUE)>>
        ELSE IF FGe(mq7_drop, 300000)
             THEN <<Alert("CO Elevated", "carbon_monoxide", "high", TRUE)>>
        ELSE <<>>

CoAlert(cd) ==
    LET mq7_drop == Get(cd, "mq7_drop", Num(0))
    IN  IF FGt(mq7_drop, 750000)
        THEN <<Alert("CO CRITICAL", "carbon_monoxide", "critical", TRUE)>>
        ELSE IF FGt(mq7_drop, 300000)
             THEN <<Alert("CO Elevated", "carbon_monoxide", "high", TRUE)>>
        ELSE <<>>

\* lines 907-929
GasAlert(cd) ==
    LET mq2_drop == Get(cd, "mq2_drop", Num(0))
    IN  IF FGt(mq2_drop, 750000)
        THEN <<Alert("GAS CRITICAL", "flammable_gas", "critical", TRUE)>>
        ELSE IF FGt(mq2_drop, 300000)
             THEN <<Alert("Gas Elevated", "flammable_gas", "high", TRUE)>>
        ELSE <<>>

\* an operand of the + of line 934: a number, or a bool counting as 0 or 1
AddOperand(v) == IF v.k = "bool" THEN Num(1000 * v.n) ELSE v

\* line 934: current_data['temperature_bmp280'] + current_data['temperature_dht22'];
\* ok is FALSE where the line raises (KeyError on a missing key, TypeError on
\* None or text); s is the sum, twice avg_temp
TempSum(cd) ==
    IF /\ "temperature_bmp280" \in DOMAIN cd
       /\ "temperature_dht22" \in DOMAIN cd
       /\ IsNumber(AddOperand(cd["temperature_bmp280"]))
       /\ IsNumber(AddOperand(cd["temperature_dht22"]))
    THEN [ok |-> TRUE, s |-> FAdd(AddOperand(cd["temperature_bmp280"]),
                                  AddOperand(cd["temperature_dht22"]))]
    ELSE [ok |-> FALSE, s |-> NaN]

\* lines 935-967, on twice avg_temp
TempAlert(cd) ==
    LET s == TempSum(cd).s
    IN  IF FLt(s, 36000)
        THEN <<Alert("Temperature Critical Low", "temperature", "high", TRUE)>>
        ELSE IF FGt(s, 60000)
             THEN <<Alert("Temperature Critical High", "temperature", "high", TRUE)>>
        ELSE IF FLt(s, 40000) \/ FGt(s, 54000)
             THEN <<Alert("Temperature Outside Optimal", "temperature", "medium", FALSE)>>
        ELSE <<>>

\* lines 970-1003
HumidityAlert(cd) ==
    LET humidity == Get(cd, "humidity", Num(0))
    IN  IF FLt(humidity, 45000)
        THEN <<Alert("Humidity Critical Low", "humidity", "high", TRUE)>>
        ELSE IF FGt(humidity, 80000)
             THEN <<Alert("Humidity Critical High", "humidity", "high", TRUE)>>
        ELSE IF FLt(humidity, 45000) \/ FGt(humidity, 70000)
             THEN <<Alert("Humidity Outside Optimal", "humidity", "medium", FALSE)>>
        ELSE <<>>

\* lines 1006-1028
AirAlert(cd) ==
    LET mq135_drop == Get(cd, "mq135_drop", Num(0))
    IN  IF FGt(mq135_drop, 500000)
        THEN <<Alert("Air Quality Poor", "air_quality", "medium", TRUE)>>
        ELSE IF FGt(mq135_drop, 200000)
             THEN <<Alert("Air Quality Moderate", "air_quality", "low", FALSE)>>
        ELSE <<>>

\* line 1031: any(alert.get('sound', False) for alert in alerts)
ShouldAlert_BySeverity(alerts) ==
    \E i \in 1..Len(alerts) : alerts[i].severity \in {"critical", "high"}

ShouldAlert(alerts) == \E i \in 1..Len(alerts) : alerts[i].sound

\* the alerts list in the order the code appends to it
AlertsOf(cd) ==
    FlameAlert(cd) \o CoAlert(cd) \o GasAlert(cd) \o TempAlert(cd)
        \o HumidityAlert(cd) \o AirAlert(cd)

NoAlerts == [status |-> 0, alerts |-> <<>>, alert_count |-> 0, should_alert |-> FALSE]

\* get_alerts (lines 841-1038) on what get_cached_apex_or_fetch returned: 503
\* without readings, 500 when build_derived_from_reading or line 934 raises
GetAlerts(rr, tnow) ==
    IF ~HasReadings(rr)
    THEN [status |-> 503, alerts |-> <<>>, alert_count |-> 0, should_alert |-> FALSE]
    ELSE LET latest == rr.data[1]
             cd == Merge(latest, BuildDerived(latest, tnow).d)
         IN  IF ~BuildDerived(latest, tnow).ok \/ ~TempSum(cd).ok
             THEN [status |-> 500, alerts |-> <<>>, alert_count |-> 0,
                   should_alert |-> FALSE]
             ELSE [status |-> 200, alerts |-> AlertsOf(cd),
                   alert_count |-> Len(AlertsOf(cd)),
                   should_alert |-> ShouldAlert(AlertsOf(cd))]

(***************************************************************************)
(* The initial state: the module has been imported and the poller thread   *)
(* started (lines 1040-1044).                                              *)
(***************************************************************************)
PureIdle == [op |-> "none", shape |-> "list", gz |-> FALSE, items |-> <<>>, now |-> 0,
             n |-> 0, key |-> "none", v |-> Null]
NoDerived == [ok |-> FALSE, d |-> <<>>]
NoOut == [batch |-> <<>>, series |-> <<>>, derived |-> NoDerived, alerts |-> NoAlerts,
          label |-> "none", shown |-> <<>>]

SysInit ==
    /\ smart_cache = EmptyCache
    /\ age = 0
    /\ cache_lock = "free"
    /\ pool_lock = "free"
    /\ pool = {}
    /\ ppc = "poll"
    /\ res = NoRes
    /\ fret = NoRet
    /\ sleepLeft = 0
    /\ reqs = 0
    /\ rpc = [t \in Readers |-> "idle"]
    /\ pubs = 0
    /\ published = FALSE
    /\ lastGood = <<>>
    /\ fails = 0
    /\ failedDone = 0
    /\ lastSnap = NoSnap

Init ==
    /\ SysInit
    /\ pin = PureIdle
    /\ pout = NoOut

Bump(n) == IF n < MaxCount THEN n + 1 ELSE n

(***************************************************************************)
(* fetch_apex_readings, run by the poller thread (lines 179-316).          *)
(***************************************************************************)
\* lines 463-465: a cycle starts and calls fetch_apex_readings
PollerStart ==
    /\ ppc = "poll"
    /\ ppc' = "f_conn"
    /\ reqs' = 0
    /\ fret' = NoRet
    /\ UNCHANGED <<smart_cache, age, cache_lock, pool_lock, pool, res, sleepLeft, rpc, pubs,
                   published, lastGood, fails, failedDone, lastSnap, pin, pout>>

\* a connection handle: failed once a request, a getresponse or a read on it
\* has raised
Handle(host, failed) == [host |-> host, failed |-> failed]

\* the handles the pool holds for a host
Pooled(p, host) == {h \in p : h.host = host}

\* get_apex_connection (lines 164-177): a handle is constructed only when the
\* host has none
Acquire(p, host) == IF Pooled(p, host) = {} THEN p \cup {Handle(host, FALSE)} ELSE p

\* lines 210-216 and 307-313: the host's handle is closed and removed
Evict(p, host) == {h \in p : h.host # host}

\* an I/O call on the host's pooled handle raised
MarkFailed(p, host) == {IF h.host = host THEN Handle(h.host, TRUE) ELSE h : h \in p}

\* lines 169, 210 and 307: `with _apex_connection_lock:` is entered; only
\* fetch_apex_readings takes this lock, and only the poller thread runs it
PoolLockAcquire ==
    /\ ppc \in {"f_conn", "f_evict", "f_except"}
    /\ pool_lock = "free"
    /\ pool_lock' = "poller"
    /\ UNCHANGED <<smart_cache, age, cache_lock, pool, ppc, res, fret, sleepLeft, reqs,
                   rpc, pubs, published, lastGood, fails, failedDone, lastSnap, pin,
                   pout>>

\* line 197, get_apex_connection (lines 164-177): the pooled handle, created
\* when the host has none, is returned and the with block left
FetchConn_HoldLock ==
    /\ ppc = "f_conn"
    /\ pool_lock = "poller"
    /\ pool' = Acquire(pool, ApexHost)
    /\ ppc' = "f_request"
    /\ UNCHANGED <<smart_cache, age, cache_lock, pool_lock, res, fret, sleepLeft, reqs,
                   rpc, pubs, published, lastGood, fails, failedDone, lastSnap, pin,
                   pout>>

FetchConn ==
    /\ ppc = "f_conn"
    /\ pool_lock = "poller"
    /\ pool' = Acquire(pool, ApexHost)
    /\ pool_lock' = "free"
    /\ ppc' = "f_request"
    /\ UNCHANGED <<smart_cache, age, cache_lock, res, fret, sleepLeft, reqs, rpc, pubs,
                   published, lastGood, fails, failedDone, lastSnap, pin, pout>>

\* lines 200-206: request and getresponse on the pooled handle; either raises
\* (transport failure) or delivers a response
FetchRequest ==
    /\ ppc = "f_request"
    /\ reqs' = reqs + 1
    /\ \/ /\ ppc' = "f_evict"
          /\ res' = NoRes
          /\ pool' = MarkFailed(pool, ApexHost)
       \/ \E r \in SysResponses :
            /\ res' = r
            /\ ppc' = "f_status"
            /\ pool' = pool
    /\ UNCHANGED <<smart_cache, age, cache_lock, pool_lock, fret, sleepLeft, rpc, pubs,
                   published, lastGood, fails, failedDone, lastSnap, pin, pout>>

\* lines 207-216: the pooled handle is closed and removed
FetchEvict ==
    /\ ppc = "f_evict"
    /\ pool_lock = "poller"
    /\ pool' = Evict(pool, ApexHost)
    /\ pool_lock' = "free"
    /\ ppc' = "f_retry"
    /\ UNCHANGED <<smart_cache, age, cache_lock, res, fret, sleepLeft, reqs, rpc, pubs,
                   published, lastGood, fails, failedDone, lastSnap, pin, pout>>

\* lines 219-221: one retry on a fresh handle that is not pooled; a failure
\* here leaves for the handler of line 302
FetchRetry_Pooled ==
    /\ ppc = "f_retry"
    /\ reqs' = reqs + 1
    /\ pool' = Acquire(pool, ApexHost)
    /\ \/ /\ ppc' = "f_except"
          /\ res' = NoRes
          /\ fret' = Raised("transport")
       \/ \E r \in SysResponses :
            /\ res' = r
            /\ ppc' = "f_status"
            /\ fret' = fret
    /\ UNCHANGED <<smart_cache, age, cache_lock, pool_lock, sleepLeft, rpc, pubs,
                   published, lastGood, fails, failedDone, lastSnap, pin, pout>>

FetchRetry_GiveUp ==
    /\ ppc = "f_retry"
    /\ ppc' = "f_except"
    /\ res' = NoRes
    /\ fret' = Raised("transport")
    /\ UNCHANGED <<smart_cache, age, cache_lock, pool_lock, pool, sleepLeft, reqs, rpc,
                   pubs, published, lastGood, fails, failedDone, lastSnap, pin, pout>>

FetchRetry ==
    /\ ppc = "f_retry"
    /\ reqs' = reqs + 1
    /\ \/ /\ ppc' = "f_except"
          /\ res' = NoRes
          /\ fret' = Raised("transport")
       \/ \E r \in SysResponses :
            /\ res' = r
            /\ ppc' = "f_status"
            /\ fret' = fret
    /\ UNCHANGED <<smart_cache, age, cache_lock, pool_lock, pool, sleepLeft, rpc, pubs,
                   published, lastGood, fails, failedDone, lastSnap, pin, pout>>

\* lines 223 and 297-300: a status other than 200 returns []
FetchStatus ==
    /\ ppc = "f_status"
    /\ IF res.status = 200
       THEN /\ ppc' = "f_body"
            /\ UNCHANGED <<res, fret>>
       ELSE /\ ppc' = "check"
            /\ fret' = Returned(<<>>, "status")
            /\ res' = NoRes
    /\ UNCHANGED <<smart_cache, age, cache_lock, pool_lock, pool, sleepLeft, reqs, rpc,
                   pubs, published, lastGood, fails, failedDone, lastSnap, pin, pout>>

\* line 225: res.read() consumes the response
FetchRead ==
    /\ ppc = "f_body"
    /\ res' = NoRes

\* lines 225-296: res.read(), then gunzip, decode, normalise and sort; the
\* response of the first request is read from the pooled handle
FetchBody ==
    /\ FetchRead
    /\ \E now \in FetchClock :
         LET out == IF res.body.readok THEN ParseBody(res.body, now) ELSE Raised("read")
         IN  /\ fret' = out
             /\ ppc' = IF out.kind = "raise" THEN "f_except" ELSE "check"
    /\ pool' = IF ~res.body.readok /\ reqs = 1 THEN MarkFailed(pool, ApexHost) ELSE pool
    /\ UNCHANGED <<smart_cache, age, cache_lock, pool_lock, sleepLeft, reqs, rpc, pubs,
                   published, lastGood, fails, failedDone, lastSnap, pin, pout>>

\* lines 302-316: every exception ends here: the pooled handle is removed and
\* [] is returned
FetchExcept_Propagate ==
    /\ ppc = "f_except"
    /\ pool_lock = "poller"
    /\ pool_lock' = "free"
    /\ ppc' = "except"
    /\ UNCHANGED <<smart_cache, age, cache_lock, pool, res, fret, sleepLeft, reqs, rpc,
                   pubs, published, lastGood, fails, failedDone, lastSnap, pin, pout>>

FetchExcept_NoEvict ==
    /\ ppc = "f_except"
    /\ pool_lock = "poller"
    /\ pool_lock' = "free"
    /\ fret' = Returned(<<>>, fret.cause)
    /\ ppc' = "check"
    /\ UNCHANGED <<smart_cache, age, cache_lock, pool, res, sleepLeft, reqs, rpc, pubs,
                   published, lastGood, fails, failedDone, lastSnap, pin, pout>>

FetchExcept ==
    /\ ppc = "f_except"
    /\ pool_lock = "poller"
    /\ pool' = Evict(pool, ApexHost)
    /\ pool_lock' = "free"
    /\ fret' = Returned(<<>>, fret.cause)
    /\ ppc' = "check"
    /\ UNCHANGED <<smart_cache, age, cache_lock, res, sleepLeft, reqs, rpc, pubs,
                   published, lastGood, fails, failedDone, lastSnap, pin, pout>>

(***************************************************************************)
(* continuous_apex_poller (lines 453-479).                                 *)
(***************************************************************************)
\* a statement of the try block before the fetch raises (line 464)
PollerRaise ==
    /\ ppc = "poll"
    /\ ppc' = "except"
    /\ UNCHANGED <<smart_cache, age, cache_lock, pool_lock, pool, res, fret, sleepLeft,
                   reqs, rpc, pubs, published, lastGood, fails, failedDone, lastSnap,
                   pin, pout>>

\* lines 467 and 472-473: `if readings:`; an empty list goes to the wait
PollerCheck_PublishEmpty ==
    /\ ppc = "check"
    /\ ppc' = "lock"
    /\ lastGood' = fret.v
    /\ fails' = 0
    /\ failedDone' = 0
    /\ UNCHANGED <<smart_cache, age, cache_lock, pool_lock, pool, res, fret, sleepLeft,
                   reqs, rpc, pubs, published, lastSnap, pin, pout>>

PollerCheck ==
    /\ ppc = "check"
    /\ IF fret.v # <<>>
       THEN /\ ppc' = "lock"
            /\ lastGood' = fret.v
            /\ fails' = 0
            /\ failedDone' = 0
            /\ UNCHANGED <<fret, sleepLeft>>
       ELSE /\ ppc' = "sleep"
            /\ sleepLeft' = PollInterval
            /\ fret' = NoRet
            /\ fails' = Bump(fails)
            /\ UNCHANGED <<lastGood, failedDone>>
    /\ UNCHANGED <<smart_cache, age, cache_lock, pool_lock, pool, res, reqs, rpc, pubs,
                   published, lastSnap, pin, pout>>

\* line 468: with _smart_cache_lock
PollerLock_NoLock ==
    /\ ppc = "lock"
    /\ ppc' = "w_data"
    /\ UNCHANGED <<smart_cache, age, cache_lock, pool_lock, pool, res, fret, sleepLeft,
                   reqs, rpc, pubs, published, lastGood, fails, failedDone, lastSnap,
                   pin, pout>>

PollerLock ==
    /\ ppc = "lock"
    /\ cache_lock = "free"
    /\ cache_lock' = "poller"
    /\ ppc' = "w_data"
    /\ UNCHANGED <<smart_cache, age, pool_lock, pool, res, fret, sleepLeft, reqs, rpc, pubs,
                   published, lastGood, fails, failedDone, lastSnap, pin, pout>>

\* line 469: _smart_cache['data'] = readings
PollerWriteData_Merge ==
    /\ ppc = "w_data"
    /\ smart_cache' = [smart_cache EXCEPT !.data_set = TRUE,
                                          !.data = fret.v \o smart_cache.data,
                                          !.dpub = pubs + 1]
    /\ lastSnap' = NoSnap
    /\ ppc' = "w_ts"
    /\ UNCHANGED <<age, cache_lock, pool_lock, pool, res, fret, sleepLeft, reqs, rpc, pubs,
                   published, lastGood, fails, failedDone, pin, pout>>

PollerWriteData ==
    /\ ppc = "w_data"
    /\ smart_cache' = [smart_cache EXCEPT !.data_set = TRUE, !.data = fret.v,
                                          !.dpub = pubs + 1]
    /\ lastSnap' = NoSnap
    /\ ppc' = "w_ts"
    /\ UNCHANGED <<age, cache_lock, pool_lock, pool, res, fret, sleepLeft, reqs, rpc, pubs,
                   published, lastGood, fails, failedDone, pin, pout>>

\* line 470: _smart_cache['timestamp'] = datetime.now()
PollerWriteTs ==
    /\ ppc = "w_ts"
    /\ smart_cache' = [smart_cache EXCEPT !.ts_set = TRUE, !.tpub = pubs + 1]
    /\ age' = 0
    /\ ppc' = "unlock"
    /\ UNCHANGED <<cache_lock, pool_lock, pool, res, fret, sleepLeft, reqs, rpc, pubs,
                   published, lastGood, fails, failedDone, lastSnap, pin, pout>>

\* the end of the with block: the lock is released, the publish is complete
PollerUnlock ==
    /\ ppc = "unlock"
    /\ cache_lock' = "free"
    /\ pubs' = (pubs + 1) % PubWrap
    /\ published' = TRUE
    /\ ppc' = "printed"
    /\ UNCHANGED <<smart_cache, age, pool_lock, pool, res, fret, sleepLeft, reqs, rpc,
                   lastGood, fails, failedDone, lastSnap, pin, pout>>

\* line 471, the last statement of the try block: it completes, or it raises
PollerPrinted ==
    /\ ppc = "printed"
    /\ fret' = NoRet
    /\ \/ /\ ppc' = "sleep"
          /\ sleepLeft' = PollInterval
       \/ /\ ppc' = "except"
          /\ sleepLeft' = sleepLeft
    /\ UNCHANGED <<smart_cache, age, cache_lock, pool_lock, pool, res, reqs, rpc, pubs,
                   published, lastGood, fails, failedDone, lastSnap, pin, pout>>

\* lines 475-476: except Exception: the error is logged and the cycle goes on
\* to the wait of line 479
PollerExcept_Dies ==
    /\ ppc = "except"
    /\ ppc' = "dead"
    /\ UNCHANGED <<smart_cache, age, cache_lock, pool_lock, pool, res, fret, sleepLeft,
                   reqs, rpc, pubs, published, lastGood, fails, failedDone, lastSnap,
                   pin, pout>>

PollerExcept ==
    /\ ppc = "except"
    /\ ppc' = "sleep"
    /\ sleepLeft' = PollInterval
    /\ fret' = NoRet
    /\ UNCHANGED <<smart_cache, age, cache_lock, pool_lock, pool, res, reqs, rpc, pubs,
                   published, lastGood, fails, failedDone, lastSnap, pin, pout>>

\* line 479: time.sleep(interval) returns once the interval has elapsed
PollerSleep_NoWait ==
    /\ ppc = "sleep"
    /\ ppc' = "poll"
    /\ failedDone' = fails
    /\ UNCHANGED <<smart_cache, age, cache_lock, pool_lock, pool, res, fret, sleepLeft,
                   reqs, rpc, pubs, published, lastGood, fails, lastSnap, pin, pout>>

PollerSleep ==
    /\ ppc = "sleep"
    /\ sleepLeft = 0
    /\ ppc' = "poll"
    /\ failedDone' = fails
    /\ UNCHANGED <<smart_cache, age, cache_lock, pool_lock, pool, res, fret, sleepLeft,
                   reqs, rpc, pubs, published, lastGood, fails, lastSnap, pin, pout>>

\* one second passes
Tick ==
    /\ age' = IF smart_cache.ts_set /\ age < MaxAge THEN age + 1 ELSE age
    /\ sleepLeft' = IF sleepLeft > 0 THEN sleepLeft - 1 ELSE 0
    /\ UNCHANGED <<smart_cache, cache_lock, pool_lock, pool, ppc, res, fret, reqs, rpc,
                   pubs, published, lastGood, fails, failedDone, lastSnap, pin, pout>>

(***************************************************************************)
(* Request threads: GET /api/sensor-data.                                  *)
(***************************************************************************)
\* line 486: with _smart_cache_lock
ReaderAcquire(t) ==
    /\ rpc[t] = "idle"
    /\ cache_lock = "free"
    /\ cache_lock' = "reader"
    /\ rpc' = [rpc EXCEPT ![t] = "locked"]
    /\ UNCHANGED <<smart_cache, age, pool_lock, pool, ppc, res, fret, sleepLeft, reqs, pubs,
                   published, lastGood, fails, failedDone, lastSnap, pin, pout>>

\* the end of the with block of line 486: the request thread releases the lock
ReaderUnlock(t) ==
    /\ rpc[t] = "locked"
    /\ cache_lock' = "free"
    /\ rpc' = [rpc EXCEPT ![t] = "idle"]

\* lines 488-497 and the rest of get_sensor_data (lines 525-538): the cache is
\* read, the lock released and the response built
ReaderReturn_PullThrough(t) ==
    /\ ReaderUnlock(t)
    /\ reqs' = IF smart_cache.data_set THEN reqs ELSE reqs + 1
    /\ pool' = IF smart_cache.data_set THEN pool ELSE Acquire(pool, ApexHost)
    /\ UNCHANGED <<smart_cache, age, pool_lock, ppc, res, fret, sleepLeft, pubs, published,
                   lastGood, fails, failedDone, lastSnap, pin, pout>>

ReaderReturn(t) ==
    /\ ReaderUnlock(t)
    /\ \E tnow \in CallClock :
         LET out == SensorData(ReadResult(smart_cache, age), tnow)
         IN  lastSnap' = IF out.status = 200
                         THEN [set |-> TRUE, snap |-> out.snap]
                         ELSE lastSnap
    /\ UNCHANGED <<smart_cache, age, pool_lock, pool, ppc, res, fret, sleepLeft, reqs, pubs,
                   published, lastGood, fails, failedDone, pin, pout>>

Next ==
    \/ PollerStart
    \/ PollerRaise
    \/ PoolLockAcquire
    \/ FetchConn
    \/ FetchRequest
    \/ FetchEvict
    \/ FetchRetry
    \/ FetchStatus
    \/ FetchBody
    \/ FetchExcept
    \/ PollerCheck
    \/ PollerLock
    \/ PollerWriteData
    \/ PollerWriteTs
    \/ PollerUnlock
    \/ PollerPrinted
    \/ PollerExcept
    \/ PollerSleep
    \/ Tick
    \/ \E t \in Readers : ReaderAcquire(t)
    \/ \E t \in Readers : ReaderReturn(t)

Spec == Init /\ [][Next]_vars

\* The scheduler runs every thread that can take a step, time passes, and a
\* thread waiting for the lock gets it if it is free again and again.  For the
\* two steps that build a large value the condition is stated on the part of
\* the step that moves the thread on (FetchRead, ReaderUnlock): the only steps
\* of Next that satisfy it are FetchBody and ReaderReturn(t).
FairSpec ==
    /\ Spec
    /\ WF_vars(Tick)
    /\ WF_vars(PollerStart \/ PollerRaise \/ PoolLockAcquire \/ FetchConn \/ FetchRequest
               \/ FetchEvict \/ FetchRetry \/ FetchStatus \/ FetchExcept \/ PollerCheck
               \/ PollerWriteData \/ PollerWriteTs \/ PollerUnlock \/ PollerPrinted
               \/ PollerExcept \/ PollerSleep)
    /\ WF_res(FetchRead)
    /\ SF_vars(PollerLock)
    /\ \A t \in Readers : WF_<<rpc, cache_lock>>(ReaderUnlock(t))

(***************************************************************************)
(* The pure-function specification: one payload list goes through          *)
(* fetch_apex_readings' body handling, then a historical series is built   *)
(* from the batch as get_sensor_analysis does.                             *)
(***************************************************************************)
PureRecs ==
    { [timestamp_reading |-> Str(TsA), temperature_bmp280 |-> Num(21000),
       temperature_dht22 |-> Num(22000)],
      [timestamp_reading |-> Str(TsA2), humidity |-> Num(50000)],
      [timestamp_reading |-> Str(TsB), temperature_dht22 |-> Num(24000)],
      [timestamp_reading |-> Str(TsC), humidity |-> Str("12.5")],
      [timestamp_reading |-> Str(TsNoFrac), temperature_bmp280 |-> Num(26000)],
      [humidity |-> Num(40000)],
      [timestamp_reading |-> Num(5000), temperature_bmp280 |-> Str("abc")] }

RECURSIVE ListsUpTo(_)
ListsUpTo(n) ==
    IF n = 0 THEN {<<>>}
    ELSE ListsUpTo(n - 1) \cup
         {Append(l, JObj(r)) : l \in {x \in ListsUpTo(n - 1) : Len(x) = n - 1},
                               r \in PureRecs}

\* lists longer than the smallest point count
LongLists ==
    LET a == JObj([timestamp_reading |-> Str(TsA), humidity |-> Num(41000)])
        b == JObj([timestamp_reading |-> Str(TsB), humidity |-> Num(42000)])
        c == JObj([timestamp_reading |-> Str(TsC), humidity |-> Num(43000)])
        x == JObj([humidity |-> Num(44000)])
    IN  { <<a, b, c, x, x, x>>, <<x, x, x, x, x, x, x>>, <<c, x, b, x, a, x, c>> }

PureClock == {20000, 60000}

\* what one field of an upstream record can hold
FieldValues ==
    { Null, Num(-3200), Num(0), Num(40), Num(250000), Num(800000), Bool(TRUE), Bool(FALSE),
      Str("abc"), Str("12.5"), Str("nan"), Str("inf"), Str("-inf"), PInf, NInf, NaN }

NumFields ==
    { "mq135_drop", "mq2_drop", "mq7_drop", "mq135_baseline", "mq2_baseline", "mq7_baseline",
      "humidity", "pressure", "altitude", "soil_moisture", "flame_raw", "light_raw",
      "light_percent", "temperature_bmp280", "temperature_dht22" }

FlameValues ==
    { Null, Num(0), Num(1000), Bool(TRUE), Bool(FALSE), Str("yes"), Str("Yes"), Str(" yes "),
      Str("No"), Str("1"), Str("abc"), NaN }

FlameRawValues ==
    { Null, Num(100000), Num(1999000), Num(2000000), Num(4095000), Str("abc") }

BaseRec == [timestamp_reading |-> Str(TsC), temperature_bmp280 |-> Num(23000),
            temperature_dht22 |-> Num(23000), humidity |-> Num(55000)]

\* the record r with field f set to v
Override(r, f, v) == [x \in DOMAIN r \cup {f} |-> IF x = f THEN v ELSE r[x]]

\* single-object payloads: a complete record with one field varied, the flame
\* indicator with and without the raw flame reading, records that lack the
\* temperature fields, and values on and next to every alert threshold (the
\* varied temperature averages with 23.0)
DeriveRecs ==
    {Override(BaseRec, f, v) : f \in NumFields, v \in FieldValues}
    \cup {Override(BaseRec, "flame_detected", fd) : fd \in FlameValues}
    \cup {Override(Override(BaseRec, "flame_detected", fd), "flame_raw", fr) :
              fd \in FlameValues, fr \in FlameRawValues}
    \cup { BaseRec,
           [mq2_drop |-> Num(800000)],
           [mq2_drop |-> Num(800000), temperature_bmp280 |-> Num(23000)],
           [flame_detected |-> Num(1000), humidity |-> Num(50000)],
           [items |-> Num(5000), humidity |-> Num(50000)],
           [items |-> Null] }
    \cup {Override(BaseRec, f, Num(v)) :
              f \in {"mq7_drop", "mq2_drop", "mq135_drop"},
              v \in {200000, 200100, 300000, 300100, 500000, 500100, 750000, 750100}}
    \cup {Override(BaseRec, "humidity", Num(v)) :
              v \in {44900, 45000, 70000, 70100, 70500, 71000, 75000, 80000, 80100}}
    \cup {Override(BaseRec, "light_percent", Num(v)) : v \in {33000, 50000, 99900, 100000}}
    \cup {Override(Override(BaseRec, "light_raw", raw), "light_percent", Num(50000)) :
              raw \in {Num(1234000), Num(1234560), Str("abc"), Null}}
    \cup {Override(BaseRec, "temperature_bmp280", Num(v)) :
              v \in {12800, 12920, 13000, 16800, 17000, 31000, 31200, 37000, 37200}}

\* payload lists by shape: records only, and lists in which an element is no
\* object (a scalar, a nested list)
ShapeLists ==
    LET a == JObj([timestamp_reading |-> Str(TsA), humidity |-> Num(41000)])
        x == JObj([humidity |-> Num(44000)])
    IN  { <<>>, <<a>>, <<x, a>>, <<a, x, a>>, <<JScalar>>, <<a, JScalar>>, <<JScalar, x>>,
          <<JList(<<>>)>>, <<x, JList(<<a>>)>> }

\* arguments of the temperature classifier, in thousandths of a degree
TempInputs ==
    {Num(x) : x \in (17990..18010) \cup (19990..20010) \cup (26990..27010)
                     \cup (29990..30010) \cup {-5000, 0, 23500, 45000}}
    \cup {PInf, NInf, NaN}

PureInit ==
    /\ SysInit
    /\ \/ \E l \in ListsUpTo(MaxItems) \cup LongLists, now \in PureClock :
            pin = [PureIdle EXCEPT !.op = "start", !.items = l, !.now = now]
       \/ \E r \in DeriveRecs, gz \in BOOLEAN, now \in PureClock :
            pin = [PureIdle EXCEPT !.op = "start", !.shape = "obj", !.gz = gz,
                                   !.items = <<JObj(r)>>, !.now = now]
       \/ \E l \in ShapeLists, shape \in {"items", "anylist"}, gz \in BOOLEAN,
               now \in PureClock :
            pin = [PureIdle EXCEPT !.op = "start", !.shape = shape, !.gz = gz,
                                   !.items = l, !.now = now]
       \/ \E now \in PureClock :
            pin = [PureIdle EXCEPT !.op = "start", !.shape = "scalar", !.now = now]
       \/ \E v \in TempInputs :
            pin = [PureIdle EXCEPT !.op = "value", !.v = v]
    /\ pout = NoOut

\* the response body the upstream sends for the input, gzip-compressed or not:
\* a bare list of records ("list"), a bare list of any values ("anylist"), an
\* object with a list under "items", a single object, or a scalar document
PureBody(p) ==
    Body(p.gz, p.gz, "json",
         CASE p.shape = "obj" -> p.items[1]
           [] p.shape = "items" -> JItems(p.items)
           [] p.shape = "scalar" -> JScalar
           [] OTHER -> JList(p.items),
         TRUE)

\* the cache after a poll published the batch, as a request thread reads it
PublishedRead(batch) ==
    ReadResult([data_set |-> TRUE, data |-> batch, dpub |-> 1, ts_set |-> TRUE, tpub |-> 1], 0)

\* fetch_apex_readings on a 200 response carrying the payload
PureFetch ==
    /\ pin.op = "start"
    /\ pin' = [pin EXCEPT !.op = "fetched"]
    /\ pout' = [pout EXCEPT !.batch = ParseBody(PureBody(pin), pin.now).v]
    /\ UNCHANGED sysvars

\* get_sensor_analysis on that batch as the cached one
PureHistory ==
    /\ pin.op = "fetched"
    /\ pout.batch # <<>>
    /\ BuildDerived(pout.batch[1], pin.now).ok      \* line 601 raising ends the call
    /\ \E n \in PointCounts, key \in HistoryKeys, tnow \in CallClock :
         /\ pin' = [pin EXCEPT !.op = "history", !.n = n, !.key = key]
         /\ pout' = [pout EXCEPT !.series = HistoricalData(pout.batch, n, key, tnow)]
    /\ UNCHANGED sysvars

\* build_derived_from_reading on the latest reading of the batch
PureDerive ==
    /\ pin.op = "fetched"
    /\ pout.batch # <<>>
    /\ \E tnow \in CallClock :
         pout' = [pout EXCEPT !.derived = BuildDerived(pout.batch[1], tnow)]
    /\ pin' = [pin EXCEPT !.op = "derived"]
    /\ UNCHANGED sysvars

\* get_alerts with that batch published
PureAlerts ==
    /\ pin.op = "fetched"
    /\ \E tnow \in CallClock :
         pout' = [pout EXCEPT !.alerts = GetAlerts(PublishedRead(pout.batch), tnow)]
    /\ pin' = [pin EXCEPT !.op = "alerts"]
    /\ UNCHANGED sysvars

\* _get_temperature_status on a value
PureClassify ==
    /\ pin.op = "value"
    /\ pin' = [pin EXCEPT !.op = "classified"]
    /\ pout' = [pout EXCEPT !.label = TemperatureStatus(pin.v)]
    /\ UNCHANGED sysvars

\* get_sensor_analysis for each classified sensor on the batch whose alerts
\* were evaluated: the statuses shown next to the alerts
PureDisplay ==
    /\ pin.op = "alerts"
    /\ pout.alerts.status = 200
    /\ \E tnow \in CallClock :
         LET latest == pout.batch[1]
             current_data == Merge(PublicPart(latest), BuildDerived(latest, tnow).d)
         IN  pout' = [pout EXCEPT !.shown =
                         [key \in ClassifiedKeys |-> DisplayStatus(current_data, key)]]
    /\ pin' = [pin EXCEPT !.op = "shown"]
    /\ UNCHANGED sysvars

PureNext ==
    PureFetch \/ PureHistory \/ PureDerive \/ PureAlerts \/ PureClassify \/ PureDisplay

PureSpec == PureInit /\ [][PureNext]_vars

(***************************************************************************)
(* Properties.                                                             *)
(***************************************************************************)
\* what a request thread holding the cache lock is about to return
Reading == ReadResult(smart_cache, age)
SomeReaderLocked == \E t \in Readers : rpc[t] = "locked"

\* C1: the cache is changed only by the poller's two writes, made for a fetch
\* that returned a non-empty list: the data entry becomes exactly that list
\* (nothing of the old one is kept) and the capture time is then set for the
\* same publish; every other step, those of a cycle whose fetch returned []
\* or that raised included, leaves both entries as they were.
C1_OnlyNonEmptyPollPublishes ==
    [][smart_cache' # smart_cache =>
         /\ fret.kind = "list"
         /\ fret.v # <<>>
         /\ \/ /\ ppc = "w_data"
               /\ smart_cache'.data_set
               /\ smart_cache'.data = fret.v
               /\ smart_cache'.ts_set = smart_cache.ts_set
               /\ smart_cache'.tpub = smart_cache.tpub
            \/ /\ ppc = "w_ts"
               /\ smart_cache'.ts_set
               /\ smart_cache'.data = smart_cache.data
               /\ smart_cache.data = fret.v
               /\ smart_cache'.tpub = smart_cache'.dpub
               /\ age' = 0]_vars

\* C1 witness: both writes of a publish that follows an earlier one are done
\* and the cache holds exactly the one-record batch just fetched
C1_Witness ==
    /\ ppc = "unlock"
    /\ published
    /\ smart_cache.data = fret.v
    /\ Len(smart_cache.data) = 1
    /\ smart_cache.dpub = smart_cache.tpub

\* C2: a request thread inside get_cached_apex_or_fetch sees a data entry and
\* a capture time written by the same publish, or an empty cache: never the
\* data of one publish with the time of another.
C2_ReadSeesOnePublish ==
    \A t \in Readers :
        rpc[t] = "locked" =>
            /\ Reading.has => /\ Reading.dpub = Reading.tpub
                              /\ smart_cache.data_set /\ smart_cache.ts_set
            /\ ~Reading.has => smart_cache = EmptyCache

\* C2 witness: a thread reads the previous pair while the poller is about to
\* publish a newly fetched, different batch
C2_Witness ==
    /\ SomeReaderLocked
    /\ ppc = "lock"
    /\ Reading.has
    /\ fret.v # Reading.data

\* C3: fetch_apex_readings always hands a list back to the poller, the empty
\* list after every failure; an exception raised inside it never leaves it.
C3_FetchNeverRaises ==
    /\ fret.kind = "raise" => ppc = "f_except"
    /\ ppc = "check" => /\ fret.kind = "list"
                        /\ fret.cause # "none" => fret.v = <<>>

\* C3 witness: both attempts failed at transport level and [] came back
C3_Witness ==
    /\ ppc = "check"
    /\ fret.cause = "transport"
    /\ reqs = 2
    /\ fret.v = <<>>

\* C4: a read returns 'no_data' exactly when no poll has published yet, and
\* then get_sensor_data answers 503 without a snapshot.
C4_NoDataIffNeverPublished ==
    \A t \in Readers :
        rpc[t] = "locked" =>
            /\ (Reading.kind = "no_data") <=> ~published
            /\ ~published =>
                 \A tnow \in CallClock :
                     /\ SensorData(Reading, tnow).status = 503
                     /\ SensorData(Reading, tnow).snap = <<>>

\* C4 witness: a read after a publish that was followed by failed polls
C4_Witness ==
    /\ SomeReaderLocked
    /\ published
    /\ fails >= 2
    /\ Reading.kind # "no_data"

C6_PollerNeverStops ==
    /\ []<>(ppc = "poll")
    /\ [][(ppc' = "sleep" /\ ppc # "sleep") => sleepLeft' = PollInterval]_vars

\* C6 witness: a new cycle starts after a publish and two whole failed cycles
C6_Witness ==
    /\ ppc = "poll"
    /\ failedDone >= 2
    /\ published

\* C7 as stated: the returned batch is strictly descending by timestamp.
C7_StrictlyDescending ==
    pin.op # "start" =>
        \A i \in 1..Len(pout.batch) - 1 :
            pout.batch[i].timestamp.n > pout.batch[i + 1].timestamp.n

\* C7 amended: the returned batch is descending by timestamp, two readings
\* comparing equal only when their resolved timestamps are equal; it is
\* strictly descending when the resolved timestamps are pairwise distinct.
C7_Descending ==
    pin.op # "start" =>
        /\ pout.batch # <<>> => Len(pout.batch) = Len(pin.items)
        /\ \A i \in 1..Len(pout.batch) :
               /\ "timestamp" \in DOMAIN pout.batch[i]
               /\ pout.batch[i]._ts_num = pout.batch[i].timestamp
        /\ \A i \in 1..Len(pout.batch) - 1 :
               pout.batch[i].timestamp.n >= pout.batch[i + 1].timestamp.n
        /\ (\A i, j \in 1..Len(pin.items) :
               i # j => ResolveTs(pin.items[i].o, i - 1, pin.now)
                            # ResolveTs(pin.items[j].o, j - 1, pin.now))
             => \A i \in 1..Len(pout.batch) - 1 :
                    pout.batch[i].timestamp.n > pout.batch[i + 1].timestamp.n

\* C7 witness: a batch of three whose upstream order was not descending
C7_Witness ==
    /\ pin.op = "fetched"
    /\ Len(pout.batch) = 3
    /\ ResolveTs(pin.items[1].o, 0, pin.now) < ResolveTs(pin.items[3].o, 2, pin.now)
    /\ pout.batch[1].timestamp.n > pout.batch[3].timestamp.n

\* C8 as stated: the historical series is strictly ascending by timestamp.
C8_StrictlyAscending ==
    pin.op = "history" =>
        \A i \in 1..Len(pout.series) - 1 :
            pout.series[i].timestamp.n < pout.series[i + 1].timestamp.n

\* C8 amended: the historical series is ascending by timestamp (equal
\* neighbours only for readings with equal timestamps), strictly so when the
\* timestamps of the charted readings are pairwise distinct, and it holds the
\* first num_points readings of the batch, or two synthetic points.
C8_Ascending ==
    pin.op = "history" =>
        LET m == IF pin.n < Len(pout.batch) THEN pin.n ELSE Len(pout.batch)
        IN  /\ Len(pout.series) = IF m < 2 THEN 2 ELSE m
            /\ \A i \in 1..Len(pout.series) - 1 :
                   pout.series[i].timestamp.n <= pout.series[i + 1].timestamp.n
            /\ m >= 2 =>
                   \A i \in 1..m :
                       pout.series[i].timestamp = pout.batch[m + 1 - i].timestamp
            /\ (\A i, j \in 1..m :
                   i # j => pout.batch[i].timestamp # pout.batch[j].timestamp)
                 => \A i \in 1..Len(pout.series) - 1 :
                        pout.series[i].timestamp.n < pout.series[i + 1].timestamp.n

\* C8 witness: a series cut to fewer points than the batch has
C8_Witness ==
    /\ pin.op = "history"
    /\ pin.n < Len(pout.batch)
    /\ Len(pout.series) = pin.n
    /\ pout.series[1].timestamp.n < pout.series[pin.n].timestamp.n

\* C9: a step of a request thread changes neither the cache entry nor the
\* connection pool and issues no upstream request; requests are issued by
\* poller steps only.
C9_ReadChangesNothing ==
    [][((\E t \in Readers : rpc'[t] # rpc[t]) =>
            UNCHANGED <<smart_cache, age, pool, reqs, res, fret, ppc>>)
       /\ (reqs' # reqs => ppc \in {"poll", "f_request", "f_retry"})]_vars

\* C9 witness: a read of the never-populated cache
C9_Witness ==
    /\ SomeReaderLocked
    /\ ~smart_cache.data_set
    /\ ~published
    /\ fails >= 1

\* C10: between two publishes every get_sensor_data call computes the same
\* Derived Snapshot, whatever the clock reads at the call.
C10_SameSnapshotBetweenPublishes ==
    [][(lastSnap.set /\ lastSnap'.set) => lastSnap'.snap = lastSnap.snap]_vars

\* C10 witness: a second call, later than the first, is about to answer from
\* a batch whose timestamps were synthesised from the fetch clock
C10_Witness ==
    /\ SomeReaderLocked
    /\ lastSnap.set
    /\ age >= 2
    /\ Reading.has
    /\ "timestamp_reading" \notin DOMAIN Reading.data[1]

\* the reading the pure-function specification derives from and evaluates
Latest == pout.batch[1]
FlameAlerts == {i \in 1..Len(pout.alerts.alerts) : pout.alerts.alerts[i].sensor_type = "flame"}

\* C11: whenever the Derived Snapshot of the latest reading has flame_detected
\* true, a completed alert evaluation holds a flame alert that is critical and
\* sounds, and should_alert is true.
C11_FlameAlertEmitted ==
    (pin.op = "alerts" /\ pout.alerts.status = 200 /\ FlameDetected(Latest)) =>
        /\ \E i \in FlameAlerts : /\ pout.alerts.alerts[i].severity = "critical"
                                  /\ pout.alerts.alerts[i].sound
        /\ pout.alerts.should_alert

\* the alerts of the flammable-gas channel
GasAlerts ==
    {i \in 1..Len(pout.alerts.alerts) : pout.alerts.alerts[i].sensor_type = "flammable_gas"}

\* C12: for a gzip-compressed single-object payload whose mq2_drop is 800, the
\* alert evaluation made after its publish completes with exactly one alert
\* for the flammable-gas channel, critical and sounding, and should_alert true.
C12_GasScenarioAlerts ==
    (/\ pin.op = "alerts" /\ pin.gz /\ pin.shape = "obj"
     /\ Get(pin.items[1].o, "mq2_drop", Null) = Num(800000)) =>
        /\ pout.alerts.status = 200
        /\ Cardinality(GasAlerts) = 1
        /\ \A i \in GasAlerts : /\ pout.alerts.alerts[i].severity = "critical"
                                /\ pout.alerts.alerts[i].sound
        /\ pout.alerts.should_alert

\* a field's coercion fails: the value is null or text that is no number
CoercionFails(r, key) == key \in DOMAIN r /\ ~ToFloat(r[key]).ok

\* the fields with a documented default of 0, and what the snapshot calls them
ZeroDefaultFields ==
    { "mq135_drop", "mq2_drop", "mq7_drop", "mq135_baseline", "mq2_baseline", "mq7_baseline",
      "humidity", "pressure", "altitude" }

\* C13: build_derived_from_reading returns a snapshot for every reading, and a
\* field whose coercion fails takes its default: 0 for the gas deltas, the
\* baselines, humidity, pressure and altitude, 45 for soil moisture.
C13_DerivedTotal ==
    pin.op = "derived" =>
        /\ pout.derived.ok
        /\ \A f \in ZeroDefaultFields :
               CoercionFails(Latest, f) => pout.derived.d[f] = Num(0)
        /\ CoercionFails(Latest, "soil_moisture") => pout.derived.d.soil_moisture = Num(45000)

\* the three gas channels
GasKeys == {"mq135_drop", "mq2_drop", "mq7_drop"}

\* the upstream delta is <= 0, missing or non-numeric
NoPositiveDelta(r, key) ==
    \/ key \notin DOMAIN r
    \/ ~ToFloat(r[key]).ok
    \/ FLe(ToFloat(r[key]).f, 0)

\* C14: in every snapshot each derived gas delta is >= 0, is exactly 0 when the
\* upstream delta is <= 0, missing or non-numeric, and the CO2 estimate is
\* never below 400.
C14_GasDeltasClamped ==
    (pin.op = "derived" /\ pout.derived.ok) =>
        /\ \A k \in GasKeys :
               /\ FGe(pout.derived.d[k], 0)
               /\ NoPositiveDelta(Latest, k) => pout.derived.d[k] = Num(0)
        /\ FGe(pout.derived.d.co2_level, 400000)

\* C14 witness: a negative upstream delta was derived to 0
C14_Witness ==
    /\ pin.op = "derived"
    /\ pout.derived.ok
    /\ Get(Latest, "mq2_drop", Null) = Num(-3200)
    /\ pout.derived.d.mq2_drop = Num(0)
    /\ pout.derived.d.co2_level = Num(400000)

\* C15: when the flame indicator is absent from the reading, flame_detected is
\* true exactly when the raw flame reading (4095 when it is missing or does
\* not coerce) is below the cutoff of 2000.
C15_AbsentFlameUsesRaw ==
    (pin.op = "derived" /\ pout.derived.ok /\ "flame_detected" \notin DOMAIN Latest) =>
        (pout.derived.d.flame_detected = Bool(TRUE))
            <=> FLt(NumOf(Latest, "flame_raw", Num(4095000)), FlameCutoff * 1000)

\* C16: the temperature classifier gives Optimal on 20 <= v <= 27, Acceptable
\* on 18 <= v < 20 and on 27 < v <= 30, Critical on v < 18 and on v > 30
\* (the infinities included), and one of the three labels on every value.
C16_TemperatureBands ==
    pin.op = "classified" =>
        /\ pout.label \in {"Optimal", "Acceptable", "Critical"}
        /\ pin.v.k = "num" =>
               /\ (20000 <= pin.v.n /\ pin.v.n <= 27000) => pout.label = "Optimal"
               /\ (18000 <= pin.v.n /\ pin.v.n < 20000) => pout.label = "Acceptable"
               /\ (27000 < pin.v.n /\ pin.v.n <= 30000) => pout.label = "Acceptable"
               /\ (pin.v.n < 18000 \/ pin.v.n > 30000) => pout.label = "Critical"
        /\ pin.v.k \in {"inf", "ninf"} => pout.label = "Critical"

\* C16 witness: 19.999 was classified Acceptable
C16_Witness ==
    /\ pin.op = "classified"
    /\ pin.v = Num(19999)
    /\ pout.label = "Acceptable"

\* the alerts that sound
SoundAlerts == {i \in 1..Len(pout.alerts.alerts) : pout.alerts.alerts[i].sound}

C18_AtMostOneRetry ==
    /\ [](reqs <= 2)
    /\ [](ppc = "f_retry" => (reqs = 1 /\ res = NoRes /\ Pooled(pool, ApexHost) = {}))
    /\ []((ppc = "check" /\ fret.cause = "transport") => (reqs = 2 /\ fret.v = <<>>))
    /\ [][(reqs' > reqs /\ reqs >= 1) =>
              (ppc = "f_retry" /\ reqs' = 2 /\ pool' = pool
               /\ Pooled(pool', ApexHost) = {})]_vars
    /\ [][(ppc = "f_status" /\ res.status # 200 /\ ppc' # ppc) =>
              (ppc' = "check" /\ reqs' = reqs /\ fret' = Returned(<<>>, "status"))]_vars

\* C18 witness: the retry delivered a batch and the pool holds no handle
C18_Witness ==
    /\ ppc = "check"
    /\ reqs = 2
    /\ fret.cause = "none"
    /\ fret.v # <<>>
    /\ pool = {}

\* the poller is inside fetch_apex_readings
InFetch == ppc \in {"f_conn", "f_request", "f_evict", "f_retry", "f_status", "f_body", "f_except"}

\* C19: the pool holds at most one handle per host; a handle that saw an I/O
\* failure is out of the pool when the fetch has returned and is never handed
\* out; it only ever leaves the pool, so the next get_apex_connection for the
\* host constructs a new handle.
C19_FailedHandleEvicted ==
    /\ [](\A g, h \in pool : g.host = h.host => g = h)
    /\ [](~InFetch => \A h \in pool : ~h.failed)
    /\ [](ppc = "f_request" => \E h \in Pooled(pool, ApexHost) : ~h.failed)
    /\ [][\A h \in pool : h.failed => (h \in pool' \/ Pooled(pool', h.host) = {})]_vars
    /\ [][(\E h \in Pooled(pool, ApexHost) : h.failed) => ppc' # "f_request"]_vars

\* C19 witness: the read of the pooled handle's response failed and the fetch
\* has returned [] with the handle evicted
C19_Witness ==
    /\ ppc = "check"
    /\ fret.cause = "read"
    /\ reqs = 1
    /\ fret.v = <<>>
    /\ pool = {}

\* the upstream timestamp of a record is missing, empty, malformed or no string
FallbackInput(it) ==
    \/ "timestamp_reading" \notin DOMAIN it
    \/ it.timestamp_reading.k # "str"
    \/ it.timestamp_reading.s = ""
    \/ ~Strptime(StripZ(it.timestamp_reading.s)).ok

\* the positions of the batch that hold the reading made from input record i
\* with the timestamp ts
PlacesOf(i, ts) ==
    {k \in 1..Len(pout.batch) :
        /\ pout.batch[k].timestamp = Num(ts)
        /\ \A f \in DOMAIN pin.items[i].o \ {"timestamp"} :
               f \in DOMAIN pout.batch[k] /\ pout.batch[k][f] = pin.items[i].o[f]}

\* C20: the batch has one reading per input record, each with a numeric
\* timestamp; a record whose upstream timestamp is missing, empty, malformed
\* or not a string is in the batch with the timestamp now - 10 s * index, and
\* of two such records the earlier input comes first, with the later timestamp.
C20_FallbackTimestamps ==
    (pin.op = "fetched" /\ pin.shape = "list") =>
        /\ Len(pout.batch) = Len(pin.items)
        /\ \A k \in 1..Len(pout.batch) :
               /\ "timestamp" \in DOMAIN pout.batch[k]
               /\ pout.batch[k].timestamp.k = "num"
        /\ \A i \in 1..Len(pin.items) :
               FallbackInput(pin.items[i].o) =>
                   PlacesOf(i, pin.now - 10000 * (i - 1)) # {}
        /\ \A i, j \in 1..Len(pin.items) :
               (i < j /\ FallbackInput(pin.items[i].o) /\ FallbackInput(pin.items[j].o)) =>
                   \E k \in PlacesOf(i, pin.now - 10000 * (i - 1)) :
                       \E l \in PlacesOf(j, pin.now - 10000 * (j - 1)) :
                           /\ k < l
                           /\ pout.batch[k].timestamp.n > pout.batch[l].timestamp.n

\* C20 witness: a batch of three made from two records without a usable
\* timestamp around one with a parsed timestamp
C20_Witness ==
    /\ pin.op = "fetched"
    /\ pin.shape = "list"
    /\ Len(pout.batch) = 3
    /\ FallbackInput(pin.items[1].o)
    /\ ~FallbackInput(pin.items[2].o)
    /\ FallbackInput(pin.items[3].o)
    /\ "timestamp_reading" \in DOMAIN pin.items[3].o

\* every element of the payload list is an object
AllRecords == \A i \in 1..Len(pin.items) : IsDict(pin.items[i])

\* the batch holds a reading with every field the input record i carries
Carried(i) ==
    \E k \in 1..Len(pout.batch) :
        \A f \in DOMAIN pin.items[i].o \ {"timestamp"} :
            f \in DOMAIN pout.batch[k] /\ pout.batch[k][f] = pin.items[i].o[f]

\* C21 as stated: a list under 'items' and a bare list yield one reading per
\* list element, any other object a one-element batch, every other value an
\* empty batch.
C21_OneReadingPerElement ==
    pin.op = "fetched" =>
        /\ pin.shape \in {"items", "list", "anylist"} => Len(pout.batch) = Len(pin.items)
        /\ pin.shape = "obj" => Len(pout.batch) = 1
        /\ pin.shape = "scalar" => pout.batch = <<>>

\* C21, amended: a list under 'items' and a bare list yield one reading per
\* element when every element is an object, and an empty batch when an element
\* is not; any other object (one whose 'items' is no list included) yields a
\* one-element batch carrying its fields; a scalar document yields an empty
\* batch.
C21_ThreeShapes ==
    pin.op = "fetched" =>
        /\ (pin.shape \in {"items", "list", "anylist"} /\ AllRecords) =>
               /\ Len(pout.batch) = Len(pin.items)
               /\ \A i \in 1..Len(pin.items) : Carried(i)
        /\ (pin.shape \in {"items", "list", "anylist"} /\ ~AllRecords) => pout.batch = <<>>
        /\ pin.shape = "obj" => (Len(pout.batch) = 1 /\ Carried(1))
        /\ pin.shape = "scalar" => pout.batch = <<>>

\* C21 witness: an object with a list of two records under 'items' gave a
\* batch of two
C21_Witness ==
    /\ pin.op = "fetched"
    /\ pin.shape = "items"
    /\ Len(pin.items) = 2
    /\ AllRecords
    /\ Len(pout.batch) = 2

\* the snapshot get_alerts evaluates: the latest reading overlaid with its
\* Derived Snapshot (the rules read no time-dependent field)
Snap == Merge(Latest, BuildDerived(Latest, 0).d)

\* exactly one alert of the type was emitted, with this severity and sound flag
Emits(type, severity, sound) ==
    /\ Cardinality({i \in 1..Len(pout.alerts.alerts) :
                       pout.alerts.alerts[i].sensor_type = type}) = 1
    /\ \A i \in 1..Len(pout.alerts.alerts) :
           pout.alerts.alerts[i].sensor_type = type =>
               /\ pout.alerts.alerts[i].severity = severity
               /\ pout.alerts.alerts[i].sound = sound

\* no alert of the type was emitted
Silent(type) ==
    \A i \in 1..Len(pout.alerts.alerts) : pout.alerts.alerts[i].sensor_type # type

\* the band rule of the two safety gas channels
SafetyGasBands(type, drop) ==
    /\ FGt(drop, 750000) => Emits(type, "critical", TRUE)
    /\ (FGt(drop, 300000) /\ FLe(drop, 750000)) => Emits(type, "high", TRUE)
    /\ ~FGt(drop, 300000) => Silent(type)

EnvAgrees(type, key) ==
    /\ Emits(type, "high", TRUE) <=> pout.shown[key] = "Critical"
    /\ Emits(type, "medium", FALSE) <=> pout.shown[key] = "Acceptable"
    /\ Silent(type) <=> pout.shown[key] = "Optimal"

\* the same for a gas channel whose top alert has the given severity
GasAgrees(type, key, top) ==
    /\ ~Silent(type) <=> pout.shown[key] \notin {"Good", "Safe"}
    /\ Emits(type, top, TRUE) <=> pout.shown[key] \in {"Poor", "High"}

\* C23: for every reading the alert engine and the display classifier agree:
\* for temperature and humidity a sounding high alert exactly when the shown
\* status is Critical, a silent medium alert exactly when Acceptable, no alert
\* exactly when Optimal; for each gas channel an alert exactly when the shown
\* status is not Good/Safe, the top severity exactly when it is Poor/High.
C23_AlertsAgreeWithDisplay ==
    pin.op = "shown" =>
        /\ EnvAgrees("temperature", "temperature")
        /\ EnvAgrees("humidity", "humidity")
        /\ GasAgrees("air_quality", "mq135_drop", "medium")
        /\ GasAgrees("flammable_gas", "mq2_drop", "critical")
        /\ GasAgrees("carbon_monoxide", "mq7_drop", "critical")

\* C24: get_alerts completes with an alert set for every non-empty cached
\* batch, whatever the two temperature fields of the latest reading hold
\* (missing, null, text); it never ends in an unhandled error.
C24_AlertsAlwaysComplete ==
    (pin.op = "alerts" /\ pout.batch # <<>>) =>
        /\ pout.alerts.status = 200
        /\ pout.alerts.alert_count = Len(pout.alerts.alerts)

\* what float() makes of a temperature field of the latest reading: ok is
\* FALSE where the field is missing or does not coerce
TempField(key) == ToFloat(Get(Latest, key, Null))

\* t has one decimal and lies within 0.05 of x / den (all in thousandths)
RoundedTo(t, x, den) ==
    /\ t.k = "num"
    /\ t.n % 100 = 0
    /\ den * t.n - x <= 50 * den
    /\ x - den * t.n <= 50 * den

\* C25: the derived temperature is the average of temperature_bmp280 and
\* temperature_dht22 rounded to one decimal when both coerce to numbers, the
\* one that coerces, rounded to one decimal, when only one does, and None when
\* neither does.
C25_TemperatureAverage ==
    (pin.op = "derived" /\ pout.derived.ok) =>
        LET b == TempField("temperature_bmp280")
            d == TempField("temperature_dht22")
            t == pout.derived.d.temperature
        IN  /\ (b.ok /\ d.ok /\ b.f.k = "num" /\ d.f.k = "num") =>
                   RoundedTo(t, b.f.n + d.f.n, 2)
            /\ (b.ok /\ d.ok) => (t = RoundHalf1(FAdd(b.f, d.f)) /\ t # Null)
            /\ (b.ok /\ ~d.ok /\ b.f.k = "num") => RoundedTo(t, b.f.n, 1)
            /\ (~b.ok /\ d.ok /\ d.f.k = "num") => RoundedTo(t, d.f.n, 1)
            /\ (b.ok /\ ~d.ok) => t = Round1(b.f)
            /\ (~b.ok /\ d.ok) => t = Round1(d.f)
            /\ (~b.ok /\ ~d.ok) => t = Null

\* C25 witness: only temperature_dht22 coerces (temperature_bmp280 is text)
\* and the snapshot's temperature is that sensor's value
C25_Witness ==
    /\ pin.op = "derived"
    /\ pout.derived.ok
    /\ Get(Latest, "temperature_bmp280", Null) = Str("abc")
    /\ TempField("temperature_dht22").ok
    /\ pout.derived.d.temperature = Num(23000)

\* what float() makes of the two light fields of the latest reading
LightRaw == ToFloat(Get(Latest, "light_raw", Null))
LightPercent == ToFloat(Get(Latest, "light_percent", Null))

UpstreamIO == ppc \in {"f_request", "f_retry", "f_body"}

\* C27: upstream request and response I/O is done with the pool lock and the
\* cache lock both not held by the thread doing it, and request threads do
\* none; the two locks are never held together; the poller holds the cache
\* lock only for its two writes, so never during a fetch; every acquisition
\* of either lock is followed by its release; the poller waiting for the
\* cache lock gets it, and a request thread holding it returns.
C27_LocksNeverHeldOverIO ==
    /\ [](UpstreamIO => (pool_lock = "free" /\ cache_lock # "poller"))
    /\ [](~(pool_lock = "poller" /\ cache_lock = "poller"))
    /\ [](cache_lock = "poller" <=> ppc \in {"w_data", "w_ts", "unlock"})
    /\ [](InFetch => cache_lock # "poller")
    /\ [][(reqs' > reqs \/ res' # res) =>
              /\ pool_lock = "free"
              /\ cache_lock # "poller"
              /\ rpc' = rpc]_vars
    /\ (pool_lock = "poller") ~> (pool_lock = "free")
    /\ (cache_lock = "poller") ~> (cache_lock = "free")
    /\ (ppc = "lock") ~> (cache_lock = "poller")
    /\ \A t \in Readers : (rpc[t] = "locked") ~> (rpc[t] = "idle")

\* C27 witness: the body of the retry's response is being read while a
\* request thread is inside the cache lock, and the pool lock is free
C27_Witness ==
    /\ ppc = "f_body"
    /\ reqs = 2
    /\ SomeReaderLocked
    /\ cache_lock = "reader"
    /\ pool_lock = "free"
    /\ published

\* C28 as stated: in every reachable state the data entry and the capture
\* time are both absent or both present.
C28_BothOrNeitherEverywhere ==
    smart_cache.data_set <=> smart_cache.ts_set

\* C28: whenever the poller is not inside its with block (so in every state a
\* read can see) the data entry and the capture time are both absent or both
\* present; the capture time is never present without the data; a present
\* data entry is a non-empty list; neither entry goes back to absent.
C28_CacheEntryConsistent ==
    /\ [](cache_lock # "poller" => (smart_cache.data_set <=> smart_cache.ts_set))
    /\ [](smart_cache.ts_set => smart_cache.data_set)
    /\ [](smart_cache.data_set <=> smart_cache.data # <<>>)
    /\ []((smart_cache.data_set /\ ~smart_cache.ts_set) => (ppc = "w_ts" /\ ~published))
    /\ [][/\ smart_cache.data_set => smart_cache'.data_set
          /\ smart_cache.ts_set => smart_cache'.ts_set]_vars

\* C28 witness: a populated cache is kept, both entries present, through a
\* later poll that failed and is about to wait
C28_Witness ==
    /\ published
    /\ smart_cache.data_set
    /\ smart_cache.ts_set
    /\ Len(smart_cache.data) >= 1
    /\ fails >= 1
    /\ ppc = "sleep"

\* the answers of a recovered upstream: status 200, a body that can be read
\* and that fetch_apex_readings turns into a non-empty batch
GoodResponses ==
    {r \in SysResponses :
        /\ r.status = 200
        /\ r.body.readok
        /\ \A now \in FetchClock :
              /\ ParseBody(r.body, now).kind = "list"
              /\ ParseBody(r.body, now).v # <<>>}

\* a step in which every request issued is answered by a recovered upstream
UpstreamAnswers == reqs' > reqs => res' \in GoodResponses

\* the same, except that the attempt on the pooled handle may still fail in
\* transport (a handle that died while pooled); it is then evicted and the
\* request retried on a fresh connection
UpstreamAnswersFresh ==
    reqs' > reqs => (res' \in GoodResponses \/ (ppc = "f_request" /\ ppc' = "f_evict"))

\* a step in which no statement of the poll cycle outside the fetch raises
NoLocalFailure == ~(ppc \in {"poll", "printed"} /\ ppc' = "except")

\* the cache is populated again and again, each time with the batch of the
\* fetch just made, every fetch that starts is eventually published, and from
\* some point on a read finds both entries
Recovered ==
    /\ []<>(ppc = "unlock" /\ smart_cache.data = fret.v /\ fret.v # <<>>)
    /\ <>[](ppc = "f_conn" => <>(ppc = "unlock"))
    /\ <>[](smart_cache.data_set /\ smart_cache.ts_set /\ published)

====
